---- MODULE Spec2Model ----
(***************************************************************************)
(* GAMS external-equation interface: the control vector icntr, the message *)
(* packer GEwrite/GEstat/GElog of docs/_static/geheader.h, and the entry   *)
(* point gefunc of tests/integration/external_module/mylib.cpp.            *)
(*                                                                         *)
(* Memory model: icntr is an array of 32-bit ints (sizeof(int) = 4); the   *)
(* characters memcpy packs into an int are laid out little-endian.         *)
(* Doubles are modelled in thousandths (fixed point).                      *)
(***************************************************************************)
EXTENDS Integers, Sequences, FiniteSets, TLC

VARIABLES
    icntr,      \* the control vector, 0-based: [0..Length-1 -> Int]
    fpDebug,    \* static FILE *fpDebug: FALSE = NULL, TRUE = open
    debugFile,  \* contents of debugext.txt: sequence of lines (char sequences)
    x, f, d,    \* the arguments of gefunc: variables, function value, derivatives
    rc,         \* value returned by the last gefunc call
    pc,         \* "host": host owns the vector; "module": inside a call
    calls,      \* history: one entry per GEwrite invocation, in call order
    prev,       \* history: icntr as it was before the last GEwrite invocation
    epoch,      \* history: number of host resets of I_BufLen so far
    entry,      \* history: the arguments as gefunc received them
    dwrites,    \* history: the indices of d the last gefunc call stored to
    nm          \* the arguments and the result of GEname: buf, bufLen, value
                \* returned, and history (buf and icntr at entry, stores)

vars == <<icntr, fpDebug, debugFile, x, f, d, rc, pc, calls, prev, epoch, entry,
          dwrites, nm>>

(***************************************************************************)
(* Protocol constants of geheader.h                                        *)
(***************************************************************************)
TOSTAT == 1
TOLOG == 2

DOINIT == 1
DOTERM == 2
DOEVAL == 3
DOCONSTDERIV == 4
DOHVPROD == 5

I_Length == 0
I_Neq == 1
I_Nvar == 2
I_Nz == 3
I_Mode == 4
I_Eqno == 5
I_Dofunc == 6
I_Dodrv == 7
I_Newpt == 8
I_Getfil == 9
I_Smode == 12
I_ConstDeriv == 13
I_HVProd == 14
I_BufStrt == 25
I_BufLen == 26
I_Debug == 27

SizeofInt == 4
MaxLine == 256

(***************************************************************************)
(* Bounds of the model                                                     *)
(***************************************************************************)
MaxWrites == 3      \* GEwrite invocations made by the generic module
MaxResets == 1      \* times the host drains the buffer of the generic module
MaxCalls == 2       \* gefunc calls made by the host

(***************************************************************************)
(* C integer arithmetic                                                    *)
(***************************************************************************)
\* C division: truncation toward zero
CDiv(a, b) == IF a >= 0 THEN a \div b ELSE -((-a) \div b)

Pow256(k) == IF k = 0 THEN 1 ELSE IF k = 1 THEN 256 ELSE IF k = 2 THEN 65536
             ELSE 16777216

\* byte p (0..3, memory order) of the 32-bit two's-complement int v
ByteOf(v, p) == (v \div Pow256(p)) % 256

\* the 32-bit two's-complement int whose bytes, in memory order, are b0..b3
IntOf(b0, b1, b2, b3) ==
    b0 + 256 * b1 + 65536 * b2 + 16777216 * (IF b3 >= 128 THEN b3 - 256 ELSE b3)

\* INTS(x): number of ints needed for x chars
INTS(n) == CDiv(n - 1, SizeofInt) + 1

strlen(line) == Len(line)

(***************************************************************************)
(* GEwrite                                                                 *)
(***************************************************************************)
\* variant: payload start taken one int too far
StartMsgPlus2(ic) == ic[I_BufStrt] + ic[I_BufLen] + 2

StartMsg(ic) == ic[I_BufStrt] + ic[I_BufLen] + 1

Ints2Write(ic) == ic[I_Length] - StartMsg(ic)

\* variant: the line is not cut to the room left
NBytesNoFit(line, ints2write) ==
    IF strlen(line) > MaxLine THEN MaxLine ELSE strlen(line)

\* variant: the room left is taken in ints where bytes are meant
NBytesNoScale(line, ints2write) ==
    LET n0 == strlen(line)
        n1 == IF n0 > MaxLine THEN MaxLine ELSE n0
    IN  IF INTS(n1) > ints2write THEN ints2write ELSE n1

\* variant: the line is not cut to the maximum line length
NBytesNoMax(line, ints2write) ==
    LET n0 == strlen(line)
    IN  IF INTS(n0) > ints2write THEN ints2write * SizeofInt ELSE n0

\* nBytes as computed by lines 165-169, for a line and ints2write > 0
NBytes(line, ints2write) ==
    LET n0 == strlen(line)
        n1 == IF n0 > MaxLine THEN MaxLine ELSE n0
    IN  IF INTS(n1) > ints2write THEN ints2write * SizeofInt ELSE n1

\* icntr[i] = v; a store outside the array is not represented in the array
Store(ic, i, v) == [j \in DOMAIN ic |-> IF j = i THEN v ELSE ic[j]]

\* number of ints memcpy touches when it copies n bytes to an int boundary
MemcpyInts(n) == (n + SizeofInt - 1) \div SizeofInt

\* the ints memcpy touches when it copies n bytes to icntr + at
MemcpyWords(at, n) == at .. at + MemcpyInts(n) - 1

\* memcpy((char *)(icntr + at), line, n)
Memcpy(ic, at, line, n) ==
    LET last == at + MemcpyInts(n) - 1
    IN  [j \in DOMAIN ic |->
            IF j >= at /\ j <= last
            THEN LET base == (j - at) * SizeofInt
                     B(p) == IF base + p < n THEN line[base + p + 1]
                             ELSE ByteOf(ic[j], p)
                 IN  IntOf(B(0), B(1), B(2), B(3))
            ELSE ic[j]]

StatPrefix == <<83, 116, 97, 116, 58, 32>>     \* "Stat: "
LogPrefix == <<32, 76, 111, 103, 58, 32>>      \* " Log: "
NewLine == <<10>>

\* the debug part of GEwrite, lines 144-156: the file pointer and the file.
\* fopen is attempted only while fpDebug is NULL and may fail (fopenOk = FALSE);
\* the message then printed on stdout is not part of the state.
DebugOpen(ic, fp, fopenOk) ==
    IF ic[I_Debug] # 0 /\ ~fp THEN fopenOk ELSE fp

\* variant: a line is mirrored only when its record goes into the buffer
DebugFileStored(ic, fp, file, line, mode, fopenOk) ==
    IF ic[I_Debug] # 0 /\ DebugOpen(ic, fp, fopenOk) /\ Ints2Write(ic) > 0
    THEN LET opened == IF fp THEN file ELSE <<>>
             s1 == IF mode = TOSTAT THEN Append(opened, StatPrefix \o line \o NewLine)
                   ELSE opened
             s2 == IF mode = TOLOG THEN Append(s1, LogPrefix \o line \o NewLine)
                   ELSE s1
         IN  s2
    ELSE file

DebugFile(ic, fp, file, line, mode, fopenOk) ==
    IF ic[I_Debug] # 0 /\ DebugOpen(ic, fp, fopenOk)
    THEN LET opened == IF fp THEN file ELSE <<>>      \* fopen (.., "w") truncates
             s1 == IF mode = TOSTAT THEN Append(opened, StatPrefix \o line \o NewLine)
                   ELSE opened
             s2 == IF mode = TOLOG THEN Append(s1, LogPrefix \o line \o NewLine)
                   ELSE s1
         IN  s2
    ELSE file

\* variant: the early return is taken only when ints2write < 0
PackLt(ic, line, mode) ==
    LET startMsg == StartMsg(ic)
        ints2write == Ints2Write(ic)
    IN  IF ints2write < 0 THEN ic
        ELSE LET nBytes == NBytes(line, ints2write)
                 m1 == Memcpy(ic, startMsg, line, nBytes)
                 m2 == Store(m1, startMsg - 2, nBytes)
                 m3 == Store(m2, startMsg - 1, mode)
             IN  Store(m3, I_BufLen, m3[I_BufLen] + 2 + INTS(nBytes))

\* variant: I_BufLen counts the ints the whole line asked for
PackRequested(ic, line, mode) ==
    LET startMsg == StartMsg(ic)
        ints2write == Ints2Write(ic)
    IN  IF ints2write <= 0 THEN ic
        ELSE LET nBytes == NBytes(line, ints2write)
                 m1 == Memcpy(ic, startMsg, line, nBytes)
                 m2 == Store(m1, startMsg - 2, nBytes)
                 m3 == Store(m2, startMsg - 1, mode)
             IN  Store(m3, I_BufLen,
                       m3[I_BufLen] + 2 + INTS(NBytesNoFit(line, ints2write)))

\* variant: the two header ints of the record are stored in the other order
PackSwapHeader(ic, line, mode) ==
    LET startMsg == StartMsg(ic)
        ints2write == Ints2Write(ic)
    IN  IF ints2write <= 0 THEN ic
        ELSE LET nBytes == NBytes(line, ints2write)
                 m1 == Memcpy(ic, startMsg, line, nBytes)
                 m2 == Store(m1, startMsg - 1, nBytes)
                 m3 == Store(m2, startMsg - 2, mode)
             IN  Store(m3, I_BufLen, m3[I_BufLen] + 2 + INTS(nBytes))

\* the packing part of GEwrite, lines 158-176: the vector after the call
Pack(ic, line, mode) ==
    LET startMsg == StartMsg(ic)
        ints2write == Ints2Write(ic)
    IN  IF ints2write <= 0 THEN ic
        ELSE LET nBytes == NBytes(line, ints2write)
                 m1 == Memcpy(ic, startMsg, line, nBytes)
                 m2 == Store(m1, startMsg - 2, nBytes)
                 m3 == Store(m2, startMsg - 1, mode)
             IN  Store(m3, I_BufLen, m3[I_BufLen] + 2 + INTS(nBytes))

\* the indices of icntr GEwrite stores to
PackWrites(ic, line) ==
    LET startMsg == StartMsg(ic)
        ints2write == Ints2Write(ic)
    IN  IF ints2write <= 0 THEN {}
        ELSE MemcpyWords(startMsg, NBytes(line, ints2write))
             \cup {startMsg - 2, startMsg - 1, I_BufLen}

\* history entry describing one GEwrite invocation
CallEntry(ic, line, mode, ep) ==
    [ line |-> line, mode |-> mode, epoch |-> ep,
      before |-> ic[I_BufLen], after |-> Pack(ic, line, mode)[I_BufLen],
      stored |-> Ints2Write(ic) > 0,
      at |-> StartMsg(ic) - 2,
      writes |-> PackWrites(ic, line) ]

(***************************************************************************)
(* The host side: allocation of the control vector                         *)
(***************************************************************************)
\* what the host leaves in the buffer region: "...." in every int
Filler == IntOf(46, 46, 46, 46)

\* a control vector of `len` ints whose buffer starts at the 1-based bufStrt
MkVector(len, bufStrt, debug, neq, nvar, nz) ==
    [i \in 0 .. len - 1 |->
        IF i = I_Length THEN len
        ELSE IF i = I_Neq THEN neq
        ELSE IF i = I_Nvar THEN nvar
        ELSE IF i = I_Nz THEN nz
        ELSE IF i = I_Mode THEN DOINIT
        ELSE IF i = I_BufStrt THEN bufStrt
        ELSE IF i = I_Debug THEN debug
        ELSE IF i >= bufStrt - 1 THEN Filler
        ELSE 0]

\* <<Length, BufStrt, Debug>> of the vectors the host allocates for a module
\* that only writes messages
PackerLayouts == { <<100, 29, 0>>, <<64, 30, 0>>, <<36, 30, 0>>, <<32, 30, 1>> }

\* the lines a module passes to GEstat / GElog: one text per length
Text(n) == [i \in 1 .. n |-> 33 + ((7 * i) % 90)]
TextLens == {0, 10, 256, 257}
Lines == { Text(n) : n \in TextLens }

\* the arrays x and d (0-based, one entry per variable) and the value *f the
\* host passes; doubles in thousandths
Arr(a, b, c, e) == [i \in 0 .. 3 |-> IF i = 0 THEN a ELSE IF i = 1 THEN b
                                    ELSE IF i = 2 THEN c ELSE e]
X0 == Arr(0, 1000, 2000, 3000)
X1 == Arr(2000, 3000, 1000, 0)
D0 == Arr(5, 6, 7, 8)
F0 == 9
NoEntry == [icntr |-> <<>>, x |-> X0, f |-> F0, d |-> D0]

\* nm while GEname has not been called
NoName == [bufLen |-> 0, buf |-> <<>>, ret |-> 0, buf0 |-> <<>>, icntr0 |-> <<>>,
           writes |-> {}]

Init ==
    /\ \E lay \in PackerLayouts :
          icntr = MkVector(lay[1], lay[2], lay[3], 2, 4, 4)
    /\ fpDebug = FALSE
    /\ debugFile = <<>>
    /\ x = X0
    /\ f = F0
    /\ d = D0
    /\ rc = 0
    /\ pc = "module"
    /\ calls = <<>>
    /\ prev = icntr
    /\ epoch = 0
    /\ entry = NoEntry
    /\ dwrites = {}
    /\ nm = NoName

(***************************************************************************)
(* The library operations, as a module calls them                          *)
(***************************************************************************)
\* GEwrite (icntr, line, mode); fopenOk: whether fopen succeeds if attempted
GEwrite(line, mode, fopenOk) ==
    /\ icntr' = Pack(icntr, line, mode)
    /\ fpDebug' = DebugOpen(icntr, fpDebug, fopenOk)
    /\ debugFile' = DebugFile(icntr, fpDebug, debugFile, line, mode, fopenOk)
    /\ calls' = Append(calls, CallEntry(icntr, line, mode, epoch))
    /\ prev' = icntr

GEstat ==
    /\ pc = "module"
    /\ Len(calls) < MaxWrites
    /\ \E line \in Lines, fopenOk \in BOOLEAN : GEwrite(line, TOSTAT, fopenOk)
    /\ UNCHANGED <<x, f, d, rc, pc, epoch, entry, dwrites, nm>>

GElog ==
    /\ pc = "module"
    /\ Len(calls) < MaxWrites
    /\ \E line \in Lines, fopenOk \in BOOLEAN : GEwrite(line, TOLOG, fopenOk)
    /\ UNCHANGED <<x, f, d, rc, pc, epoch, entry, dwrites, nm>>

\* the host drains the buffer between calls: I_BufLen is zero when the
\* module is called again
HostReset ==
    /\ pc = "module"
    /\ epoch < MaxResets
    /\ calls # <<>> /\ calls[Len(calls)].epoch = epoch
    /\ icntr' = Store(icntr, I_BufLen, 0)
    /\ epoch' = epoch + 1
    /\ UNCHANGED <<fpDebug, debugFile, x, f, d, rc, pc, calls, prev, entry, dwrites, nm>>

Next == GEstat \/ GElog \/ HostReset

Spec == Init /\ [][Next]_vars

(***************************************************************************)
(* gefunc of mylib.cpp                                                     *)
(***************************************************************************)
\* "--- Number of equations do not match"
MsgNeq ==
    <<45, 45, 45, 32, 78, 117, 109, 98, 101, 114, 32, 111, 102, 32, 101,
      113, 117, 97, 116, 105, 111, 110, 115, 32, 100, 111, 32, 110, 111,
      116, 32, 109, 97, 116, 99, 104>>

\* "--- Number of variables do not match"
MsgNvar ==
    <<45, 45, 45, 32, 78, 117, 109, 98, 101, 114, 32, 111, 102, 32, 118,
      97, 114, 105, 97, 98, 108, 101, 115, 32, 100, 111, 32, 110, 111,
      116, 32, 109, 97, 116, 99, 104>>

\* "--- Number of differentibles do not match"
MsgNz ==
    <<45, 45, 45, 32, 78, 117, 109, 98, 101, 114, 32, 111, 102, 32, 100,
      105, 102, 102, 101, 114, 101, 110, 116, 105, 98, 108, 101, 115,
      32, 100, 111, 32, 110, 111, 116, 32, 109, 97, 116, 99, 104>>

\* "--- Model has the correct size."
MsgOk ==
    <<45, 45, 45, 32, 77, 111, 100, 101, 108, 32, 104, 97, 115, 32, 116,
      104, 101, 32, 99, 111, 114, 114, 101, 99, 116, 32, 115, 105, 122,
      101, 46>>

\* "--- Terminating"
MsgTerm ==
    <<45, 45, 45, 32, 84, 101, 114, 109, 105, 110, 97, 116, 105, 110,
      103>>

\* "--- Evaluation mode"
MsgEval ==
    <<45, 45, 45, 32, 69, 118, 97, 108, 117, 97, 116, 105, 111, 110, 32,
      109, 111, 100, 101>>

\* " ** fIndex has unexpected value."
MsgFindex ==
    <<32, 42, 42, 32, 102, 73, 110, 100, 101, 120, 32, 104, 97, 115, 32,
      117, 110, 101, 120, 112, 101, 99, 116, 101, 100, 32, 118, 97, 108,
      117, 101, 46>>

\* "--- Constant derivative call"
MsgConst ==
    <<45, 45, 45, 32, 67, 111, 110, 115, 116, 97, 110, 116, 32, 100,
      101, 114, 105, 118, 97, 116, 105, 118, 101, 32, 99, 97, 108, 108>>

\* " ** Mode not defined."
MsgMode ==
    <<32, 42, 42, 32, 77, 111, 100, 101, 32, 110, 111, 116, 32, 100,
      101, 102, 105, 110, 101, 100, 46>>

\* std::sin and std::cos at the points the host passes, in thousandths
Sin(a) == IF a = 0 THEN 0 ELSE IF a = 1000 THEN 841 ELSE IF a = 2000 THEN 909
          ELSE 141
Cos(a) == IF a = 0 THEN 1000 ELSE IF a = 1000 THEN 540 ELSE IF a = 2000 THEN -416
          ELSE -990

\* the memory GEwrite works on, and GEwrite as a function of it
Mem(ic, fp, file, log, pv) ==
    [icntr |-> ic, fpDebug |-> fp, debugFile |-> file, calls |-> log, prev |-> pv]

Write(m, line, mode, fopenOk, ep) ==
    Mem(Pack(m.icntr, line, mode),
        DebugOpen(m.icntr, m.fpDebug, fopenOk),
        DebugFile(m.icntr, m.fpDebug, m.debugFile, line, mode, fopenOk),
        Append(m.calls, CallEntry(m.icntr, line, mode, ep)),
        m.icntr)

\* what one call of gefunc leaves behind
Ret(m, fv, dv, r, dw) == [m |-> m, f |-> fv, d |-> dv, rc |-> r, dwrites |-> dw]

\* d[i] = v
StoreD(dv, i, v) == [j \in DOMAIN dv |-> IF j = i THEN v ELSE dv[j]]

\* variant: the number of nonzeros is not compared
DoInitNoNz(m, fv, dv, ok, ep) ==
    IF 2 # m.icntr[I_Neq]
    THEN Ret(Write(m, MsgNeq, TOLOG, ok[1], ep), fv, dv, 2, {})
    ELSE IF 4 # m.icntr[I_Nvar]
    THEN Ret(Write(m, MsgNvar, TOLOG, ok[1], ep), fv, dv, 2, {})
    ELSE LET m1 == Write(m, MsgOk, TOLOG, ok[1], ep)
             m2 == [m1 EXCEPT !.icntr = Store(m1.icntr, I_ConstDeriv, 1)]
         IN  Ret(m2, fv, dv, 0, {})

\* variant: the capability flag is set before the sizes are compared
DoInitFlagFirst(m, fv, dv, ok, ep) ==
    LET m0 == [m EXCEPT !.icntr = Store(m.icntr, I_ConstDeriv, 1)]
    IN  IF 2 # m0.icntr[I_Neq]
        THEN Ret(Write(m0, MsgNeq, TOLOG, ok[1], ep), fv, dv, 2, {})
        ELSE IF 4 # m0.icntr[I_Nvar]
        THEN Ret(Write(m0, MsgNvar, TOLOG, ok[1], ep), fv, dv, 2, {})
        ELSE IF 4 # m0.icntr[I_Nz]
        THEN Ret(Write(m0, MsgNz, TOLOG, ok[1], ep), fv, dv, 2, {})
        ELSE Ret(Write(m0, MsgOk, TOLOG, ok[1], ep), fv, dv, 0, {})

\* lines 17-39
DoInit(m, fv, dv, ok, ep) ==
    LET neq == 2
        nvar == 4
        nz == 4
    IN  IF neq # m.icntr[I_Neq]
        THEN Ret(Write(m, MsgNeq, TOLOG, ok[1], ep), fv, dv, 2, {})
        ELSE IF nvar # m.icntr[I_Nvar]
        THEN Ret(Write(m, MsgNvar, TOLOG, ok[1], ep), fv, dv, 2, {})
        ELSE IF nz # m.icntr[I_Nz]
        THEN Ret(Write(m, MsgNz, TOLOG, ok[1], ep), fv, dv, 2, {})
        ELSE LET m1 == Write(m, MsgOk, TOLOG, ok[1], ep)
                 m2 == [m1 EXCEPT !.icntr = Store(m1.icntr, I_ConstDeriv, 1)]
             IN  Ret(m2, fv, dv, 0, {})

\* lines 40-44
DoTerm(m, fv, dv, ok, ep) ==
    Ret(Write(m, MsgTerm, TOLOG, ok[1], ep), fv, dv, 0, {})

\* variant: the derivatives are stored whether asked for or not
DoEvalAlwaysDrv(m, xv, fv, dv, ok, ep) ==
    LET m1 == Write(m, MsgEval, TOLOG, ok[1], ep)
        findex == m1.icntr[I_Eqno]
        dofnc == m1.icntr[I_Dofunc]
    IN  IF findex >= 1 /\ findex <= 2
        THEN LET f1 == IF dofnc # 0
                       THEN IF findex = 1 THEN Sin(xv[0]) - xv[2]
                            ELSE Cos(xv[1]) - xv[3]
                       ELSE fv
                 d1 == IF findex = 1
                       THEN StoreD(StoreD(dv, 0, Cos(xv[0])), 2, -1000)
                       ELSE StoreD(StoreD(dv, 1, -Sin(xv[1])), 3, -1000)
                 dw == IF findex = 1 THEN {0, 2} ELSE {1, 3}
             IN  Ret(m1, f1, d1, 0, dw)
        ELSE Ret(Write(m1, MsgFindex, TOSTAT, ok[2], ep), fv, dv, 2, {})

\* variant: the function value is recomputed only when I_Newpt says the
\* point has changed
DoEvalHint(m, xv, fv, dv, ok, ep) ==
    LET m1 == Write(m, MsgEval, TOLOG, ok[1], ep)
        findex == m1.icntr[I_Eqno]
        dofnc == m1.icntr[I_Dofunc]
        dodrv == m1.icntr[I_Dodrv]
    IN  IF findex >= 1 /\ findex <= 2
        THEN LET f1 == IF dofnc # 0 /\ m1.icntr[I_Newpt] # 0
                       THEN IF findex = 1 THEN Sin(xv[0]) - xv[2]
                            ELSE Cos(xv[1]) - xv[3]
                       ELSE fv
                 d1 == IF dodrv # 0
                       THEN IF findex = 1
                            THEN StoreD(StoreD(dv, 0, Cos(xv[0])), 2, -1000)
                            ELSE StoreD(StoreD(dv, 1, -Sin(xv[1])), 3, -1000)
                       ELSE dv
                 dw == IF dodrv # 0 THEN IF findex = 1 THEN {0, 2} ELSE {1, 3}
                       ELSE {}
             IN  Ret(m1, f1, d1, 0, dw)
        ELSE Ret(Write(m1, MsgFindex, TOSTAT, ok[2], ep), fv, dv, 2, {})

\* lines 45-90
DoEval(m, xv, fv, dv, ok, ep) ==
    LET m1 == Write(m, MsgEval, TOLOG, ok[1], ep)
        findex == m1.icntr[I_Eqno]
        dofnc == m1.icntr[I_Dofunc]
        dodrv == m1.icntr[I_Dodrv]
    IN  IF findex >= 1 /\ findex <= 2
        THEN LET f1 == IF dofnc # 0
                       THEN IF findex = 1 THEN Sin(xv[0]) - xv[2]
                            ELSE Cos(xv[1]) - xv[3]
                       ELSE fv
                 d1 == IF dodrv # 0
                       THEN IF findex = 1
                            THEN StoreD(StoreD(dv, 0, Cos(xv[0])), 2, -1000)
                            ELSE StoreD(StoreD(dv, 1, -Sin(xv[1])), 3, -1000)
                       ELSE dv
                 dw == IF dodrv # 0 THEN IF findex = 1 THEN {0, 2} ELSE {1, 3}
                       ELSE {}
             IN  Ret(m1, f1, d1, 0, dw)
        ELSE Ret(Write(m1, MsgFindex, TOSTAT, ok[2], ep), fv, dv, 2, {})

\* variant: the constant derivative is stored at d[findex]
DoConstDerivAtIndex(m, fv, dv, ok, ep, stray) ==
    LET m1 == Write(m, MsgConst, TOLOG, ok[1], ep)
        findex == m1.icntr[I_Eqno]
        inside == findex \in DOMAIN dv
    IN  Ret(m1,
            IF ~inside /\ stray = "f" THEN -1000 ELSE fv,
            StoreD(dv, findex, -1000),
            0,
            {findex})

\* lines 91-97; d[findex + 1] outside the array is a stray store: `stray`
\* tells what it hits ("none": nothing the host looks at, "f": *f)
DoConstDeriv(m, fv, dv, ok, ep, stray) ==
    LET m1 == Write(m, MsgConst, TOLOG, ok[1], ep)
        findex == m1.icntr[I_Eqno]
        inside == (findex + 1) \in DOMAIN dv
    IN  Ret(m1,
            IF ~inside /\ stray = "f" THEN -1000 ELSE fv,
            StoreD(dv, findex + 1, -1000),
            0,
            {findex + 1})

\* lines 98-103
DoOther(m, fv, dv, ok, ep) ==
    LET m1 == Write(m, MsgMode, TOLOG, ok[1], ep)
        m2 == Write(m1, MsgMode, TOSTAT, ok[2], ep)
    IN  Ret(m2, fv, dv, 2, {})

\* variant: the Hessian-vector mode is accepted and does nothing
GefuncRetHv(m, xv, fv, dv, ok, ep, stray) ==
    IF m.icntr[I_Mode] = DOINIT THEN DoInit(m, fv, dv, ok, ep)
    ELSE IF m.icntr[I_Mode] = DOTERM THEN DoTerm(m, fv, dv, ok, ep)
    ELSE IF m.icntr[I_Mode] = DOEVAL THEN DoEval(m, xv, fv, dv, ok, ep)
    ELSE IF m.icntr[I_Mode] = DOCONSTDERIV THEN DoConstDeriv(m, fv, dv, ok, ep, stray)
    ELSE IF m.icntr[I_Mode] = DOHVPROD THEN Ret(m, fv, dv, 0, {})
    ELSE DoOther(m, fv, dv, ok, ep)

\* lines 12-104
GefuncRet(m, xv, fv, dv, ok, ep, stray) ==
    IF m.icntr[I_Mode] = DOINIT THEN DoInit(m, fv, dv, ok, ep)
    ELSE IF m.icntr[I_Mode] = DOTERM THEN DoTerm(m, fv, dv, ok, ep)
    ELSE IF m.icntr[I_Mode] = DOEVAL THEN DoEval(m, xv, fv, dv, ok, ep)
    ELSE IF m.icntr[I_Mode] = DOCONSTDERIV THEN DoConstDeriv(m, fv, dv, ok, ep, stray)
    ELSE DoOther(m, fv, dv, ok, ep)

\* <<Length, BufStrt, Debug>> of the vectors the host allocates for gefunc
GefuncLayouts == { <<64, 30, 0>>, <<40, 30, 1>>, <<31, 30, 0>> }

\* the problem sizes <<Neq, Nvar, Nz>> a host declares at Init
Counts == { <<2, 4, 4>>, <<1, 4, 4>>, <<2, 3, 4>>, <<2, 4, 5>>, <<3, 5, 6>> }

EqNos == {-2, 0, 1, 2, 3}
OtherModes == {DOHVPROD, 0, -1, 6}

Req(mode, eqno, dofunc, dodrv, newpt, counts, xv) ==
    [mode |-> mode, eqno |-> eqno, dofunc |-> dofunc, dodrv |-> dodrv,
     newpt |-> newpt, counts |-> counts, x |-> xv]

\* the calls a host makes
Requests ==
    { Req(DOINIT, 0, 0, 0, 0, c, X0) : c \in Counts }
    \cup { Req(DOTERM, 0, 0, 0, 0, <<2, 4, 4>>, X0) }
    \cup { Req(DOEVAL, e, fl[1], fl[2], fl[3], <<2, 4, 4>>, xv) :
              e \in EqNos, fl \in {0, 1} \X {0, 1} \X {0, 1}, xv \in {X0, X1} }
    \cup { Req(DOCONSTDERIV, e, 0, 0, 0, <<2, 4, 4>>, X0) : e \in EqNos }
    \cup { Req(mo, 1, 1, 1, 1, <<2, 4, 4>>, X0) : mo \in OtherModes }

InitGefunc ==
    /\ \E lay \in GefuncLayouts :
          icntr = MkVector(lay[1], lay[2], lay[3], 2, 4, 4)
    /\ fpDebug = FALSE
    /\ debugFile = <<>>
    /\ x = X0
    /\ f = F0
    /\ d = D0
    /\ rc = 0
    /\ pc = "host"
    /\ calls = <<>>
    /\ prev = icntr
    /\ epoch = 0
    /\ entry = NoEntry
    /\ dwrites = {}
    /\ nm = NoName

\* the host fills in the control vector and the arguments and calls gefunc;
\* I_BufLen is zero when gefunc is called.  After an Init that reported a
\* size mismatch the host only repeats Init or terminates.
HostCall ==
    /\ pc \in {"host", "returned"}
    /\ epoch < MaxCalls
    /\ \E r \in Requests :
          /\ r.mode \in {DOINIT, DOTERM}
                \/ <<icntr[I_Neq], icntr[I_Nvar], icntr[I_Nz]>> = <<2, 4, 4>>
          /\ icntr' = [i \in DOMAIN icntr |->
                         IF i = I_Mode THEN r.mode
                         ELSE IF i = I_Eqno THEN r.eqno
                         ELSE IF i = I_Dofunc THEN r.dofunc
                         ELSE IF i = I_Dodrv THEN r.dodrv
                         ELSE IF i = I_Newpt THEN r.newpt
                         ELSE IF i = I_Neq /\ r.mode = DOINIT THEN r.counts[1]
                         ELSE IF i = I_Nvar /\ r.mode = DOINIT THEN r.counts[2]
                         ELSE IF i = I_Nz /\ r.mode = DOINIT THEN r.counts[3]
                         ELSE IF i = I_BufLen THEN 0
                         ELSE icntr[i]]
          /\ x' = r.x
    /\ f' = F0
    /\ d' = D0
    /\ pc' = "called"
    /\ epoch' = epoch + 1
    /\ calls' = <<>>
    /\ prev' = icntr'
    /\ entry' = [icntr |-> icntr', x |-> x', f |-> f', d |-> d']
    /\ UNCHANGED <<fpDebug, debugFile, rc, dwrites, nm>>

\* what the fopen calls of one gefunc call can return (they are made only
\* in debug mode while fpDebug is NULL), and what a stray store can hit
FopenOutcomes(ic, fp) ==
    IF ic[I_Debug] # 0 /\ ~fp THEN [1 .. 2 -> BOOLEAN] ELSE {[k \in 1 .. 2 |-> TRUE]}

StrayOutcomes(ic, dv) ==
    IF ic[I_Mode] = DOCONSTDERIV /\ (ic[I_Eqno] + 1) \notin DOMAIN dv
    THEN {"none", "f"} ELSE {"none"}

\* one call of gefunc, from entry to return
Gefunc ==
    /\ pc = "called"
    /\ \E ok \in FopenOutcomes(icntr, fpDebug), stray \in StrayOutcomes(icntr, d) :
          LET r == GefuncRet(Mem(icntr, fpDebug, debugFile, calls, prev),
                             x, f, d, ok, epoch, stray)
          IN  /\ icntr' = r.m.icntr
              /\ fpDebug' = r.m.fpDebug
              /\ debugFile' = r.m.debugFile
              /\ calls' = r.m.calls
              /\ prev' = r.m.prev
              /\ f' = r.f
              /\ d' = r.d
              /\ rc' = r.rc
              /\ dwrites' = r.dwrites
    /\ pc' = "returned"
    /\ UNCHANGED <<x, epoch, entry, nm>>

NextGefunc == HostCall \/ Gefunc

SpecGefunc == InitGefunc /\ [][NextGefunc]_vars

(***************************************************************************)
(* GEname, geheader.h lines 214-234, and a host that has deposited a name  *)
(***************************************************************************)
NameOffset == 10     \* icntr[10]: 1-based int index of the first chars
NameLength == 11     \* icntr[11]: the number of chars of the name

\* the char at position k of the string that starts at int index `at`
CharAt(ic, at, k) == ByteOf(ic[at + (k \div SizeofInt)], k % SizeofInt)

\* strncpy (buf, (char *)(icntr + at), n): the first n chars of buf; after
\* the first null of the source the rest of the n chars is set to null
Strncpy(buf, ic, at, n) ==
    [i \in DOMAIN buf |->
        IF i < n
        THEN IF \E j \in 0 .. i - 1 : CharAt(ic, at, j) = 0 THEN 0
             ELSE CharAt(ic, at, i)
        ELSE buf[i]]

\* variant: the null is stored whenever the count does not exceed bufLen
GEnameLe(ic, buf, bufLen) ==
    IF ic[NameLength] < 0
    THEN [ret |-> -1, buf |-> buf, writes |-> {}]
    ELSE LET nChars == IF ic[NameLength] > bufLen THEN bufLen
                       ELSE ic[NameLength]
             b1 == Strncpy(buf, ic, ic[NameOffset] - 1, nChars)
         IN  [ret |-> nChars,
              buf |-> IF nChars <= bufLen
                      THEN [i \in DOMAIN b1 |-> IF i = nChars THEN 0 ELSE b1[i]]
                      ELSE b1,
              writes |-> (0 .. nChars - 1)
                         \cup (IF nChars <= bufLen THEN {nChars} ELSE {})]

\* GEname (icntr, buf, bufLen): the value returned, buf after the call and
\* the indices of buf stored to
GEnameRet(ic, buf, bufLen) ==
    IF ic[NameLength] < 0
    THEN [ret |-> -1, buf |-> buf, writes |-> {}]
    ELSE LET nChars == IF ic[NameLength] > bufLen THEN bufLen
                       ELSE ic[NameLength]
             b1 == Strncpy(buf, ic, ic[NameOffset] - 1, nChars)
         IN  [ret |-> nChars,
              buf |-> IF nChars < bufLen
                      THEN [i \in DOMAIN b1 |-> IF i = nChars THEN 0 ELSE b1[i]]
                      ELSE b1,
              writes |-> (0 .. nChars - 1)
                         \cup (IF nChars < bufLen THEN {nChars} ELSE {})]

\* the names a host deposits, the counts it declares for them, where it puts
\* them (1-based int index: below the buffer, where the ints are zero, and
\* at the start of the buffer) and the capacities of the caller's buffer
Names == { Text(n) : n \in {0, 5, 8} }
NameCounts == {-3, -1, 0, 1, 3, 4, 5, 8}
NameOffsets == {16, 30}
NameCaps == {0, 1, 3, 4, 5, 8, 9}

\* what the caller's buffer holds before the call: '#' everywhere
NameBuf(cap) == [i \in 0 .. cap - 1 |-> 35]

InitName ==
    /\ \E s \in Names, c \in NameCounts, off \in NameOffsets :
          icntr = Store(Store(Memcpy(MkVector(64, 30, 0, 2, 4, 4), off - 1, s, Len(s)),
                              NameOffset, off),
                        NameLength, c)
    /\ \E cap \in NameCaps :
          nm = [bufLen |-> cap, buf |-> NameBuf(cap), ret |-> 0,
                buf0 |-> NameBuf(cap), icntr0 |-> icntr, writes |-> {}]
    /\ fpDebug = FALSE
    /\ debugFile = <<>>
    /\ x = X0
    /\ f = F0
    /\ d = D0
    /\ rc = 0
    /\ pc = "name"
    /\ calls = <<>>
    /\ prev = icntr
    /\ epoch = 0
    /\ entry = NoEntry
    /\ dwrites = {}

\* the module calls GEname once
GEname ==
    /\ pc = "name"
    /\ LET r == GEnameRet(icntr, nm.buf, nm.bufLen)
       IN  nm' = [nm EXCEPT !.ret = r.ret, !.buf = r.buf, !.writes = r.writes]
    /\ pc' = "named"
    /\ UNCHANGED <<icntr, fpDebug, debugFile, x, f, d, rc, calls, prev, epoch,
                   entry, dwrites>>

SpecName == InitName /\ [][GEname]_vars

(***************************************************************************)
(* Vocabulary of the properties                                            *)
(***************************************************************************)
Last == calls[Len(calls)]

\* the last step of the behaviour was a GEwrite invocation (not a host reset)
JustWrote == calls # <<>> /\ Last.epoch = epoch

\* ceil(n / wordSize) for n >= 0
CeilWords(n) == (n + 3) \div 4

Min(a, b) == IF a <= b THEN a ELSE b

\* 0-based index of the first free int of the buffer (header comment, l.19-21)
FirstFree(ic) == ic[I_BufStrt] - 1 + ic[I_BufLen]

\* free ints left for the payload of one more record, after its two header ints
Room(ic) == ic[I_Length] - FirstFree(ic) - 2

\* what a host guarantees about the vector it passes
ValidVector(ic) ==
    /\ DOMAIN ic = 0 .. ic[I_Length] - 1
    /\ ic[I_BufStrt] - 1 > I_Debug
    /\ ic[I_BufLen] >= 0
    /\ FirstFree(ic) <= ic[I_Length]

\* the n chars packed from int index `at` on are the first n chars of line
PayloadIs(ic, at, line, n) ==
    /\ n <= Len(line)
    /\ \A k \in 0 .. n - 1 :
          /\ at + (k \div 4) \in DOMAIN ic
          /\ ByteOf(ic[at + (k \div 4)], k % 4) = line[k + 1]

(***************************************************************************)
(* C1: GEwrite never overruns the buffer: on a valid vector every int it   *)
(* stores to, other than I_BufLen, has an index between the first free     *)
(* position and Length-1; header fields and earlier records keep their     *)
(* values; the vector stays valid after any sequence of appends.           *)
(***************************************************************************)
C1_NoOverrun ==
    /\ ValidVector(icntr)
    /\ JustWrote =>
          /\ Last.writes \ {I_BufLen} \subseteq FirstFree(prev) .. prev[I_Length] - 1
          /\ DOMAIN icntr = DOMAIN prev
          /\ \A i \in DOMAIN icntr :
                icntr[i] # prev[i] =>
                   i = I_BufLen \/ (i >= FirstFree(prev) /\ i <= prev[I_Length] - 1)

C1_Witness ==
    /\ JustWrote /\ Len(calls) >= 2 /\ Last.stored
    /\ prev[I_BufLen] > 0
    /\ (prev[I_Length] - 1) \in Last.writes
    /\ FirstFree(icntr) = icntr[I_Length]

(***************************************************************************)
(* C2: for every text of length L in 0..256, the empty line included, and  *)
(* a vector with room for it, GEwrite stores a record whose length int is  *)
(* L and whose destination int is the tag, and advances I_BufLen by        *)
(* 2 + ceil(L/4).  (Stated as claimed; the code does otherwise for L = 0.) *)
(***************************************************************************)
C2_ExactRecord ==
    (JustWrote /\ Len(Last.line) <= MaxLine
       /\ Room(prev) > 0 /\ Room(prev) >= CeilWords(Len(Last.line))) =>
          /\ icntr[FirstFree(prev)] = Len(Last.line)
          /\ icntr[FirstFree(prev) + 1] = Last.mode
          /\ icntr[I_BufLen] = prev[I_BufLen] + 2 + CeilWords(Len(Last.line))

(***************************************************************************)
(* C3: when the room is positive but smaller than the ints needed for the  *)
(* text (clamped to 256), the stored length is exactly room * 4, I_BufLen  *)
(* advances by 2 + room, and the buffer is then exactly full.              *)
(***************************************************************************)
C3_Truncation ==
    (JustWrote /\ Room(prev) > 0
       /\ Room(prev) < CeilWords(Min(Len(Last.line), MaxLine))) =>
          /\ icntr[FirstFree(prev)] = Room(prev) * 4
          /\ icntr[I_BufLen] = prev[I_BufLen] + 2 + Room(prev)
          /\ FirstFree(icntr) = icntr[I_Length]
          /\ PayloadIs(icntr, FirstFree(prev) + 2, Last.line, Room(prev) * 4)

C3_Witness ==
    /\ JustWrote
    /\ Room(prev) > 1
    /\ Room(prev) < CeilWords(Min(Len(Last.line), MaxLine))
    /\ icntr[FirstFree(prev)] = Room(prev) * 4

(***************************************************************************)
(* C4: when the room is <= 0, GEwrite leaves the whole control vector      *)
(* unchanged, whatever the text and destination, however often repeated;   *)
(* once the host has reset I_BufLen, an append with room stores a record.  *)
(***************************************************************************)
C4_NoRoomNoOp ==
    /\ (JustWrote /\ Room(prev) <= 0) => icntr = prev
    /\ (JustWrote /\ Room(prev) > 0) =>
          /\ icntr[I_BufLen] >= prev[I_BufLen] + 2
          /\ icntr[FirstFree(prev) + 1] = Last.mode
          /\ PayloadIs(icntr, FirstFree(prev) + 2, Last.line, icntr[FirstFree(prev)])

C4_Witness ==
    /\ JustWrote /\ Last.stored /\ Room(prev) > 0
    /\ icntr[I_BufLen] = prev[I_BufLen] + 2 + CeilWords(Len(Last.line))
    /\ \E i \in 1 .. Len(calls) - 1 :
          /\ ~calls[i].stored
          /\ calls[i].after = calls[i].before
          /\ calls[i].epoch < Last.epoch

(***************************************************************************)
(* C5 as claimed: the call is a no-op exactly when                         *)
(* Length - (BufStrt + BufLen + 2) <= 0.                                   *)
(***************************************************************************)
C5_AsClaimed ==
    JustWrote =>
       LET start == prev[I_BufStrt] + prev[I_BufLen] + 2
           remainingWords == prev[I_Length] - start
       IN  (remainingWords <= 0) <=> (icntr = prev)

(***************************************************************************)
(* C5 amended: the payload starts at the 0-based index                     *)
(* start = BufStrt + BufLen + 1, remainingWords = Length - start; the two  *)
(* header ints (byte length, destination) are at start-2 and start-1, the  *)
(* payload from start on; the call is a no-op exactly when                 *)
(* Length - (BufStrt + BufLen + 1) <= 0.                                   *)
(***************************************************************************)
C5_StartPlusOne ==
    JustWrote =>
       LET start == prev[I_BufStrt] + prev[I_BufLen] + 1
           remainingWords == prev[I_Length] - start
       IN  /\ (remainingWords <= 0) <=> (icntr = prev)
           /\ remainingWords > 0 =>
                 /\ icntr[start - 2] \in 0 .. Min(Len(Last.line), remainingWords * 4)
                 /\ icntr[start - 1] = Last.mode
                 /\ PayloadIs(icntr, start, Last.line, icntr[start - 2])
                 /\ Last.writes \ {I_BufLen} \subseteq start - 2 .. prev[I_Length] - 1
                 /\ {start - 2, start - 1} \subseteq Last.writes

C5_Witness ==
    /\ JustWrote /\ Last.stored
    /\ prev[I_Length] - (prev[I_BufStrt] + prev[I_BufLen] + 1) = 1
    /\ icntr[prev[I_BufStrt] + prev[I_BufLen]] = Last.mode
    /\ icntr[prev[I_BufStrt] + prev[I_BufLen] - 1] = 4

(***************************************************************************)
(* C6: for a text longer than 256 bytes the stored length is 256 when the  *)
(* buffer has room for 64 payload ints, and no record header ever holds a  *)
(* length above 256.                                                       *)
(***************************************************************************)
C6_Clamp256 ==
    /\ (JustWrote /\ Len(Last.line) > MaxLine /\ Room(prev) >= 64) =>
          /\ icntr[FirstFree(prev)] = 256
          /\ icntr[I_BufLen] = prev[I_BufLen] + 2 + 64
    /\ (JustWrote /\ Room(prev) > 0) => icntr[FirstFree(prev)] <= 256

C6_Witness ==
    /\ JustWrote /\ Len(Last.line) > MaxLine /\ Room(prev) >= 64
    /\ icntr[FirstFree(prev)] = 256
    /\ PayloadIs(icntr, FirstFree(prev) + 2, Last.line, 256)

(***************************************************************************)
(* Vocabulary of the properties of gefunc                                  *)
(***************************************************************************)
Returned == pc = "returned"

EntryMode == entry.icntr[I_Mode]

EntryCounts == <<entry.icntr[I_Neq], entry.icntr[I_Nvar], entry.icntr[I_Nz]>>

\* the length int of the record the i-th GEwrite of the call stored
StoredLen(i) == icntr[entry.icntr[I_BufStrt] - 1 + calls[i].before]

\* ints of the buffer the record stored by the i-th GEwrite occupies
RecordInts(i) == IF calls[i].stored THEN 2 + CeilWords(StoredLen(i)) ELSE 0

RECURSIVE SumRecordInts(_)
SumRecordInts(n) == IF n = 0 THEN 0 ELSE SumRecordInts(n - 1) + RecordInts(n)

\* the buffer holds, from int index `at` on, the whole line as one record
FullRecordAt(at, line, mode) ==
    /\ at + 1 + CeilWords(Len(line)) \in DOMAIN icntr
    /\ icntr[at] = Len(line)
    /\ icntr[at + 1] = mode
    /\ PayloadIs(icntr, at + 2, line, Len(line))

\* the header fields of the control vector other than I_BufLen
HeaderFields == (0 .. I_Debug) \ {I_BufLen}

(***************************************************************************)
(* C7: within one call of gefunc I_BufLen never decreases: it is changed   *)
(* by the GEwrite invocations only, each of which leaves it or increases   *)
(* it, and on return it equals the sum over the records stored during the  *)
(* call of 2 + the payload ints of the record.                             *)
(***************************************************************************)
C7_CounterCountsStored ==
    Returned =>
       /\ calls # <<>>
       /\ calls[1].before = entry.icntr[I_BufLen]
       /\ \A i \in 1 .. Len(calls) :
             /\ calls[i].after >= calls[i].before
             /\ i < Len(calls) => calls[i + 1].before = calls[i].after
       /\ icntr[I_BufLen] = Last.after
       /\ icntr[I_BufLen] >= entry.icntr[I_BufLen]
       /\ icntr[I_BufLen] = SumRecordInts(Len(calls))

C7_Witness ==
    /\ Returned /\ Len(calls) = 2
    /\ calls[1].stored /\ calls[2].stored
    /\ StoredLen(2) > 0 /\ StoredLen(2) < Len(calls[2].line)
    /\ icntr[I_BufLen] = 4 + CeilWords(StoredLen(1)) + CeilWords(StoredLen(2))

(***************************************************************************)
(* C8: in Init mode gefunc returns 0 if and only if the declared equation, *)
(* variable and nonzero counts are 2, 4 and 4; on any mismatch, of one or  *)
(* several fields, it returns nonzero and appends exactly one diagnostic   *)
(* record (stored whole when the buffer has room for it).                  *)
(***************************************************************************)
C8_InitCounts ==
    (Returned /\ EntryMode = DOINIT) =>
       /\ (rc = 0) <=> (EntryCounts = <<2, 4, 4>>)
       /\ EntryCounts # <<2, 4, 4>> =>
             /\ rc # 0
             /\ Len(calls) = 1
             /\ calls[1].mode = TOLOG
             /\ calls[1].line \in {MsgNeq, MsgNvar, MsgNz}
             /\ Room(entry.icntr) >= CeilWords(Len(calls[1].line)) =>
                   /\ FullRecordAt(FirstFree(entry.icntr), calls[1].line, TOLOG)
                   /\ icntr[I_BufLen] = 2 + CeilWords(Len(calls[1].line))

C8_Witness ==
    /\ Returned /\ EntryMode = DOINIT
    /\ EntryCounts = <<3, 5, 6>>
    /\ rc = 2
    /\ Len(calls) = 1
    /\ FullRecordAt(FirstFree(entry.icntr), MsgNeq, TOLOG)

(***************************************************************************)
(* C9 as claimed: in Evaluate mode with an equation index outside 1..2,    *)
(* whatever the compute flags, gefunc returns nonzero and appends the      *)
(* invalid-index diagnostic as a status record and as a log record (when   *)
(* the buffer has room for both).                                          *)
(***************************************************************************)
C9_BothDestinations ==
    (Returned /\ EntryMode = DOEVAL /\ entry.icntr[I_Eqno] \notin 1 .. 2
       /\ Room(entry.icntr) >= 30) =>
       /\ rc # 0
       /\ \E i \in 1 .. Len(calls) :
             /\ calls[i].mode = TOSTAT /\ calls[i].line = MsgFindex
             /\ FullRecordAt(entry.icntr[I_BufStrt] - 1 + calls[i].before,
                             MsgFindex, TOSTAT)
       /\ \E i \in 1 .. Len(calls) :
             /\ calls[i].mode = TOLOG /\ calls[i].line = MsgFindex
             /\ FullRecordAt(entry.icntr[I_BufStrt] - 1 + calls[i].before,
                             MsgFindex, TOLOG)

(***************************************************************************)
(* C10: for every mode that is not Init, Terminate, Evaluate or            *)
(* ConstantDerivative (5, zero and negative values included) gefunc        *)
(* returns nonzero, appends one diagnostic record for the log and one for  *)
(* the status file (stored whole when the buffer has room), and leaves the *)
(* function value, the derivative array and all header fields unchanged.   *)
(***************************************************************************)
C10_UnknownMode ==
    (Returned /\ EntryMode \notin {DOINIT, DOTERM, DOEVAL, DOCONSTDERIV}) =>
       /\ rc # 0
       /\ Len(calls) = 2
       /\ calls[1].mode = TOLOG /\ calls[1].line = MsgMode
       /\ calls[2].mode = TOSTAT /\ calls[2].line = MsgMode
       /\ Room(entry.icntr) >= 14 =>
             /\ FullRecordAt(FirstFree(entry.icntr), MsgMode, TOLOG)
             /\ FullRecordAt(FirstFree(entry.icntr) + 8, MsgMode, TOSTAT)
             /\ icntr[I_BufLen] = entry.icntr[I_BufLen] + 16
       /\ f = entry.f
       /\ d = entry.d
       /\ x = entry.x
       /\ dwrites = {}
       /\ \A i \in HeaderFields : icntr[i] = entry.icntr[i]

C10_Witness ==
    /\ Returned /\ EntryMode = DOHVPROD
    /\ rc = 2
    /\ FullRecordAt(FirstFree(entry.icntr), MsgMode, TOLOG)
    /\ FullRecordAt(FirstFree(entry.icntr) + 8, MsgMode, TOSTAT)
    /\ f = F0 /\ d = D0

(***************************************************************************)
(* C11: in Evaluate mode with a valid equation index the function value is *)
(* stored only if I_Dofunc is set and the derivatives only if I_Dodrv is   *)
(* set, and then only at the variables of the equation (equation 1: d[0],  *)
(* d[2]; equation 2: d[1], d[3]); every other entry of d, the vector x and *)
(* the header fields (total length, counts, mode, flags, buffer start,     *)
(* debug) keep their incoming values.  With equation 1, I_Dofunc set and   *)
(* I_Dodrv unset only the function value changes.                          *)
(***************************************************************************)
C11_EvalFrame ==
    (Returned /\ EntryMode = DOEVAL /\ entry.icntr[I_Eqno] \in 1 .. 2) =>
       LET e == entry.icntr[I_Eqno]
           own == IF e = 1 THEN {0, 2} ELSE {1, 3}
       IN  /\ rc = 0
           /\ entry.icntr[I_Dofunc] = 0 => f = entry.f
           /\ entry.icntr[I_Dofunc] # 0 =>
                 f = (IF e = 1 THEN Sin(entry.x[0]) - entry.x[2]
                      ELSE Cos(entry.x[1]) - entry.x[3])
           /\ entry.icntr[I_Dodrv] = 0 => (d = entry.d /\ dwrites = {})
           /\ entry.icntr[I_Dodrv] # 0 => dwrites = own
           /\ \A i \in DOMAIN d : i \notin own => d[i] = entry.d[i]
           /\ x = entry.x
           /\ \A i \in HeaderFields : icntr[i] = entry.icntr[i]

C11_Witness ==
    /\ Returned /\ EntryMode = DOEVAL
    /\ entry.icntr[I_Eqno] = 1
    /\ entry.icntr[I_Dofunc] = 1 /\ entry.icntr[I_Dodrv] = 0
    /\ f # entry.f
    /\ d = entry.d
    /\ icntr[I_BufLen] > 0

(***************************************************************************)
(* C12: Init sets I_ConstDeriv to 1 exactly when it returns 0; on a        *)
(* mismatch the flag keeps its incoming value; in no mode is I_HVProd      *)
(* stored to, nor I_ConstDeriv outside an Init that returns 0.             *)
(***************************************************************************)
C12_CapabilityFlags ==
    Returned =>
       /\ icntr[I_HVProd] = entry.icntr[I_HVProd]
       /\ (EntryMode = DOINIT /\ rc = 0) => icntr[I_ConstDeriv] = 1
       /\ ~(EntryMode = DOINIT /\ rc = 0) =>
             icntr[I_ConstDeriv] = entry.icntr[I_ConstDeriv]
       /\ (EntryMode = DOINIT /\ entry.icntr[I_ConstDeriv] = 0) =>
             ((icntr[I_ConstDeriv] = 1) <=> (rc = 0))

C12_Witness ==
    /\ Returned /\ EntryMode = DOINIT
    /\ rc = 0
    /\ entry.icntr[I_ConstDeriv] = 0
    /\ icntr[I_ConstDeriv] = 1
    /\ icntr[I_HVProd] = 0

(***************************************************************************)
(* C15: ConstantDerivative mode, for every equation index e in 1..2,       *)
(* returns 0 and stores exactly the constant derivative -1 of the linear   *)
(* variable of the equation, at d[e+1] -- the position and value Evaluate  *)
(* with I_Dodrv set stores for the linear term of that equation -- and     *)
(* leaves the function value and every other entry of d unchanged.         *)
(***************************************************************************)
C15_ConstDeriv ==
    (Returned /\ EntryMode = DOCONSTDERIV /\ entry.icntr[I_Eqno] \in 1 .. 2) =>
       LET e == entry.icntr[I_Eqno]
           asEval == DoEval(Mem(Store(entry.icntr, I_Dodrv, 1), FALSE, <<>>, <<>>,
                                entry.icntr),
                            entry.x, entry.f, entry.d, [k \in 1 .. 2 |-> TRUE], 0)
       IN  /\ rc = 0
           /\ dwrites = {e + 1}
           /\ d[e + 1] = -1000
           /\ \A i \in DOMAIN d : i # e + 1 => d[i] = entry.d[i]
           /\ f = entry.f
           /\ (e + 1) \in asEval.dwrites
           /\ asEval.d[e + 1] = d[e + 1]
           /\ \A i \in asEval.dwrites : i # e + 1 => asEval.d[i] # -1000

C15_Witness ==
    /\ Returned /\ EntryMode = DOCONSTDERIV
    /\ entry.icntr[I_Eqno] = 2
    /\ rc = 0
    /\ d[3] = -1000 /\ entry.d[3] # -1000
    /\ d[0] = entry.d[0] /\ d[1] = entry.d[1] /\ d[2] = entry.d[2]

(***************************************************************************)
(* C16: evaluation is purely functional: the status, the function value    *)
(* and the derivative array an Evaluate call returns are a function of the *)
(* variable vector, the equation index, the two compute flags and the      *)
(* incoming output values alone, so two calls that agree on these return   *)
(* the same, whatever calls came before and whatever I_Newpt holds.        *)
(***************************************************************************)
EvalOutputs(xv, e, dofunc, dodrv, f0, d0) ==
    IF e = 1
    THEN [rc |-> 0,
          f |-> IF dofunc # 0 THEN Sin(xv[0]) - xv[2] ELSE f0,
          d |-> IF dodrv # 0
                THEN [i \in DOMAIN d0 |-> IF i = 0 THEN Cos(xv[0])
                                          ELSE IF i = 2 THEN -1000 ELSE d0[i]]
                ELSE d0]
    ELSE IF e = 2
    THEN [rc |-> 0,
          f |-> IF dofunc # 0 THEN Cos(xv[1]) - xv[3] ELSE f0,
          d |-> IF dodrv # 0
                THEN [i \in DOMAIN d0 |-> IF i = 1 THEN -Sin(xv[1])
                                          ELSE IF i = 3 THEN -1000 ELSE d0[i]]
                ELSE d0]
    ELSE [rc |-> 2, f |-> f0, d |-> d0]

C16_PurelyFunctional ==
    (Returned /\ EntryMode = DOEVAL) =>
       [rc |-> rc, f |-> f, d |-> d] =
          EvalOutputs(entry.x, entry.icntr[I_Eqno], entry.icntr[I_Dofunc],
                      entry.icntr[I_Dodrv], entry.f, entry.d)

C16_Witness ==
    /\ Returned /\ EntryMode = DOEVAL
    /\ epoch = 2
    /\ entry.icntr[I_ConstDeriv] = 1
    /\ entry.icntr[I_Newpt] = 0
    /\ entry.icntr[I_Dofunc] = 1 /\ entry.icntr[I_Dodrv] = 1
    /\ entry.icntr[I_Eqno] = 2
    /\ rc = 0 /\ f = Cos(entry.x[1]) - entry.x[3]

(***************************************************************************)
(* C18: derivative-array bounds: in every mode and for every equation      *)
(* index the host passes, gefunc stores into the derivative array only at  *)
(* indices 0 .. variableCount - 1.                                         *)
(***************************************************************************)
C18_DerivBounds ==
    Returned => \A i \in dwrites : 0 <= i /\ i < icntr[I_Nvar]

(***************************************************************************)
(* C19: buffer exhaustion is never surfaced: the status, the function      *)
(* value, the derivative array and the capability flags gefunc returns are *)
(* fixed by the mode, the equation index, the compute flags, the declared  *)
(* sizes, the point and the incoming output values, so that two calls that *)
(* differ only in I_Length, I_BufStrt, I_BufLen or I_Debug return the      *)
(* same.                                                                   *)
(***************************************************************************)
Outputs(ic, xv, f0, d0) ==
    LET out(r, fv, dv, cd) ==
           [rc |-> r, f |-> fv, d |-> dv, constDeriv |-> cd,
            hvProd |-> ic[I_HVProd]]
        keep == ic[I_ConstDeriv]
    IN  IF ic[I_Mode] = DOINIT
        THEN IF <<ic[I_Neq], ic[I_Nvar], ic[I_Nz]>> = <<2, 4, 4>>
             THEN out(0, f0, d0, 1) ELSE out(2, f0, d0, keep)
        ELSE IF ic[I_Mode] = DOTERM THEN out(0, f0, d0, keep)
        ELSE IF ic[I_Mode] = DOEVAL
        THEN LET e == EvalOutputs(xv, ic[I_Eqno], ic[I_Dofunc], ic[I_Dodrv], f0, d0)
             IN  out(e.rc, e.f, e.d, keep)
        ELSE IF ic[I_Mode] = DOCONSTDERIV
        THEN out(0, f0,
                 [i \in DOMAIN d0 |-> IF i = ic[I_Eqno] + 1 THEN -1000 ELSE d0[i]],
                 keep)
        ELSE out(2, f0, d0, keep)

Stream == SelectSeq(calls, LAMBDA c : c.epoch = epoch /\ c.stored)

RecordOk(c) ==
    LET at == icntr[I_BufStrt] - 1 + c.before
        n == icntr[at]
        payload == c.after - c.before - 2
    IN  /\ at \in DOMAIN icntr /\ (at + 1) \in DOMAIN icntr
        /\ 0 <= n /\ n <= MaxLine
        /\ icntr[at + 1] \in {TOSTAT, TOLOG}
        /\ icntr[at + 1] = c.mode
        /\ payload = INTS(n)
        /\ CeilWords(n) <= payload
        /\ at + 2 + payload <= icntr[I_Length]
        /\ PayloadIs(icntr, at + 2, c.line, n)

C17_RecordStream ==
    /\ FirstFree(icntr) <= icntr[I_Length]
    /\ Stream = <<>> => icntr[I_BufLen] = 0
    /\ Stream # <<>> =>
          /\ Stream[1].before = 0
          /\ Stream[Len(Stream)].after = icntr[I_BufLen]
    /\ \A i \in 1 .. Len(Stream) - 1 : Stream[i + 1].before = Stream[i].after
    /\ \A i \in 1 .. Len(Stream) : RecordOk(Stream[i])

C17_Witness ==
    /\ epoch = 1
    /\ Len(Stream) = 2
    /\ icntr[icntr[I_BufStrt] - 1] = Len(Stream[1].line)
    /\ Len(Stream[1].line) > 0
    /\ LET at == icntr[I_BufStrt] - 1 + Stream[2].before
       IN  /\ icntr[at] > 0
           /\ icntr[at] < Len(Stream[2].line)
           /\ Stream[2].mode # Stream[1].mode

(***************************************************************************)
(* C14: debug sink mirroring.                                              *)
(* As claimed (C14_AsClaimed): with the debug flag nonzero every GEstat or *)
(* GElog call adds exactly one line, its destination prefix followed by    *)
(* the full text, to the end of the trace, in call order, also when the    *)
(* record is truncated or dropped; so the trace is the mirror of all the   *)
(* calls made.                                                             *)
(* As the code has it (C14_MirrorWhenOpen): a call with the debug flag     *)
(* nonzero adds that line when the trace file is open or fopen succeeds in *)
(* this call; when fopen fails nothing is added and the open is tried      *)
(* again by the next call.  With the debug flag zero the file is neither   *)
(* opened nor changed; once open the file stays open, it is opened only    *)
(* while it is empty, and the earlier lines are never altered.             *)
(***************************************************************************)
TraceLine(c) ==
    (IF c.mode = TOSTAT THEN StatPrefix ELSE LogPrefix) \o c.line \o NewLine

C14_AsClaimed ==
    icntr[I_Debug] # 0 =>
       debugFile = [i \in 1 .. Len(calls) |-> TraceLine(calls[i])]

C14_MirrorWhenOpen ==
    [][ /\ fpDebug => fpDebug'
        /\ ~fpDebug => debugFile = <<>>
        /\ icntr[I_Debug] = 0 => UNCHANGED <<fpDebug, debugFile>>
        /\ calls' = calls => UNCHANGED <<fpDebug, debugFile>>
        /\ (calls' # calls /\ icntr[I_Debug] # 0) =>
              IF fpDebug'
              THEN debugFile' = Append(debugFile, TraceLine(calls'[Len(calls')]))
              ELSE debugFile' = debugFile
      ]_vars

C14_Witness ==
    /\ icntr[I_Debug] # 0 /\ fpDebug
    /\ Len(calls) = 3 /\ Len(debugFile) = 2
    /\ calls[1].stored /\ icntr[icntr[I_BufStrt] - 1] < Len(calls[1].line)
    /\ ~calls[3].stored
    /\ calls[2].mode # calls[3].mode
    /\ debugFile = <<TraceLine(calls[2]), TraceLine(calls[3])>>

(***************************************************************************)
(* C13: GEname: for the count C in icntr[11] and a capacity bufLen >= 0    *)
(* the call returns min(C, bufLen) when C >= 0 and -1 when C < 0; on       *)
(* success a terminating null is stored at buf[returned count] exactly     *)
(* when the returned count is less than bufLen; on failure buf is not      *)
(* stored to; icntr is never modified.                                     *)
(***************************************************************************)
C13_GEname ==
    pc = "named" =>
       LET C == icntr[NameLength]
           B == nm.bufLen
       IN  /\ icntr = nm.icntr0
           /\ C < 0 => (nm.ret = -1 /\ nm.writes = {} /\ nm.buf = nm.buf0)
           /\ C >= 0 =>
                 /\ nm.ret = Min(C, B)
                 /\ nm.ret < B => (nm.ret \in nm.writes /\ nm.buf[nm.ret] = 0)
                 /\ nm.ret >= B => nm.ret \notin nm.writes
                 /\ nm.writes \subseteq 0 .. B - 1

C13_Witness ==
    /\ pc = "named"
    /\ icntr[NameLength] = 8 /\ nm.bufLen = 5 /\ nm.ret = 5
    /\ nm.writes = 0 .. 4
    /\ \A i \in 0 .. 4 : nm.buf[i] = Text(8)[i + 1]

====
